---- MODULE Spec2Model ----
(***************************************************************************)
(* Model of the scam detection engine (app/services/scam_detector.py) and  *)
(* of the authority profile cache (app/services/authority_fetcher.py).     *)
(*                                                                         *)
(* Texts are TLA+ strings over the ASCII alphabet.  Substring tests,       *)
(* lowercasing and every regular expression of the source are computed     *)
(* character by character.  Time is counted in whole seconds.              *)
(***************************************************************************)
EXTENDS Integers, Sequences, FiniteSets, TLC

VARIABLES
    now,       \* the clock: what time.time() returns
    ticks,     \* clock advances so far
    cache,     \* AuthorityFetcher._cache: key -> profile reference
    heap,      \* the AuthorityProfile objects, by reference
    thr,       \* per caller: the frame of its get_profile / refresh_profile call
    lastRet,   \* history: key -> stamp the latest lookup of the key returned
    det,       \* the frame of the ScamDetector.detect call
    xtext,     \* argument of a direct _extract_intelligence call
    xintel     \* its result

vars == <<now, ticks, cache, heap, thr, lastRet, det, xtext, xintel>>

(***************************************************************************)
(* Bounds of the model.                                                    *)
(***************************************************************************)
MaxWords == 2      \* words of the vocabulary joined into one message
MaxTicks == 1      \* clock advances in one behaviour
MaxObjs == 1       \* profiles created by discovery in one behaviour
NumThreads == 2    \* concurrent callers of the authority cache

(***************************************************************************)
(* Python values.                                                          *)
(***************************************************************************)
None == "None"     \* None where a string is expected
NoObj == 0         \* None where a profile reference is expected
NoStamp == 0 - 1   \* None where a time stamp is expected

Min(a, b) == IF a < b THEN a ELSE b

(***************************************************************************)
(* Characters and strings.                                                 *)
(***************************************************************************)
At(s, i) == SubSeq(s, i, i)

CharsOf(s) == {At(s, i) : i \in 1..Len(s)}

LowerLetters == "abcdefghijklmnopqrstuvwxyz"
UpperLetters == "ABCDEFGHIJKLMNOPQRSTUVWXYZ"
Digits == CharsOf("0123456789")
Letters == CharsOf(LowerLetters) \cup CharsOf(UpperLetters)
WordChars == Letters \cup Digits \cup {"_"}                \* \w
SpaceChars == {" ", "\t", "\n", "\r", "\f"}                \* \s
HandleChars == WordChars \cup {".", "-"}                   \* [\w.\-]

ToLower == [c \in CharsOf(UpperLetters) |->
                At(LowerLetters, CHOOSE i \in 1..26 : At(UpperLetters, i) = c)]
ToUpper == [c \in CharsOf(LowerLetters) |->
                At(UpperLetters, CHOOSE i \in 1..26 : At(LowerLetters, i) = c)]

LowerChar(c) == IF c \in DOMAIN ToLower THEN ToLower[c] ELSE c

UpperChar(c) == IF c \in DOMAIN ToUpper THEN ToUpper[c] ELSE c

\* str.lower()
Lower(s) ==
    LET F[i \in 0..Len(s)] == IF i = 0 THEN "" ELSE F[i - 1] \o LowerChar(At(s, i))
    IN  F[Len(s)]

\* str.upper()
Upper(s) ==
    LET F[i \in 0..Len(s)] == IF i = 0 THEN "" ELSE F[i - 1] \o UpperChar(At(s, i))
    IN  F[Len(s)]

\* str.strip(): leading and trailing whitespace removed
Strip(s) ==
    LET ns == {i \in 1..Len(s) : At(s, i) \notin SpaceChars}
    IN  IF ns = {} THEN ""
        ELSE SubSeq(s, CHOOSE i \in ns : \A j \in ns : i <= j,
                       CHOOSE i \in ns : \A j \in ns : j <= i)

\* s[i:i+len(lit)] == lit
HasAt(s, lit, i) == i >= 1 /\ i + Len(lit) - 1 <= Len(s) /\ SubSeq(s, i, i + Len(lit) - 1) = lit

\* positions where lit occurs in s
Occ(s, lit) == {i \in 1..(Len(s) - Len(lit) + 1) : SubSeq(s, i, i + Len(lit) - 1) = lit}

\* Python's  sub in s
Contains(s, sub) == Occ(s, sub) # {}

\* every character of s[i..j] is in the class cs
AllIn(s, i, j, cs) == \A k \in i..j : At(s, k) \in cs

\* ".*" can span s[i..j]: no newline in between
Dot(s, i, j) == \A k \in i..j : At(s, k) # "\n"

\* end of the longest run of characters of class cs starting at i (i - 1 when empty)
RunEnd(s, i, cs) ==
    LET stops == {k \in i..Len(s) : At(s, k) \notin cs}
    IN  IF stops = {} THEN Len(s) ELSE (CHOOSE k \in stops : \A m \in stops : k <= m) - 1

(***************************************************************************)
(* Regular expressions of the source, each by what re.search does with it. *)
(* A pattern is a record; Search(p, s) is  re.search(pattern, s) != None.  *)
(***************************************************************************)
PLit(a) == [kind |-> "lit", a |-> a, b |-> ""]                    \* a
PAlt(a, b) == [kind |-> "alt", a |-> a, b |-> b]                  \* a|b
PAnyDigit(a) == [kind |-> "any_digit", a |-> a, b |-> ""]         \* a.*\d+
PAnyLit(a, b) == [kind |-> "any_lit", a |-> a, b |-> b]           \* a.*b
PAnyWord(a, b) == [kind |-> "any_word", a |-> a, b |-> b]         \* a.*b\w+
PDigitsAt == [kind |-> "digits_at", a |-> "", b |-> ""]           \* \d{10}@\w+
PRs == [kind |-> "rs", a |-> "", b |-> ""]                        \* rs\.?\s*\d+
PAnyRs(a) == [kind |-> "any_rs", a |-> a, b |-> ""]               \* a.*rs\.?\s*\d+
PUrl == [kind |-> "url", a |-> "", b |-> ""]                      \* https?://[^\s]+
PPlus91 == [kind |-> "plus91", a |-> "", b |-> ""]                \* \+91\d{10}

\* rs\.?\s*\d+ matches at position i
RsAt(s, i) ==
    /\ HasAt(s, "rs", i)
    /\ \E d \in {0, 1} :
         /\ d = 1 => HasAt(s, ".", i + 2)
         /\ LET e == RunEnd(s, i + 2 + d, SpaceChars)
            IN  e + 1 <= Len(s) /\ At(s, e + 1) \in Digits

\* https?://[^\s]+ matches at position i; UrlEnd is the last position of the match
UrlBody(s, i) ==
    IF HasAt(s, "https://", i) THEN i + 8
    ELSE IF HasAt(s, "http://", i) THEN i + 7 ELSE 0

UrlAt(s, i) ==
    LET b == UrlBody(s, i)
    IN  b # 0 /\ b <= Len(s) /\ At(s, b) \notin SpaceChars

UrlEnd(s, i) == RunEnd(s, UrlBody(s, i), {At(s, k) : k \in 1..Len(s)} \ SpaceChars)

Search(p, s) ==
    CASE p.kind = "lit" -> Contains(s, p.a)
      [] p.kind = "alt" -> Contains(s, p.a) \/ Contains(s, p.b)
      [] p.kind = "any_digit" ->
            \E i \in Occ(s, p.a) : \E j \in (i + Len(p.a))..Len(s) :
                At(s, j) \in Digits /\ Dot(s, i + Len(p.a), j - 1)
      [] p.kind = "any_lit" ->
            \E i \in Occ(s, p.a) : \E j \in Occ(s, p.b) :
                j >= i + Len(p.a) /\ Dot(s, i + Len(p.a), j - 1)
      [] p.kind = "any_word" ->
            \E i \in Occ(s, p.a) : \E j \in Occ(s, p.b) :
                /\ j >= i + Len(p.a) /\ Dot(s, i + Len(p.a), j - 1)
                /\ j + Len(p.b) <= Len(s) /\ At(s, j + Len(p.b)) \in WordChars
      [] p.kind = "digits_at" ->
            \E i \in 1..(Len(s) - 11) :
                AllIn(s, i, i + 9, Digits) /\ At(s, i + 10) = "@" /\ At(s, i + 11) \in WordChars
      [] p.kind = "rs" -> \E i \in 1..Len(s) : RsAt(s, i)
      [] p.kind = "any_rs" ->
            \E i \in Occ(s, p.a) : \E j \in (i + Len(p.a))..Len(s) :
                RsAt(s, j) /\ Dot(s, i + Len(p.a), j - 1)
      [] p.kind = "url" -> \E i \in 1..Len(s) : UrlAt(s, i)
      [] p.kind = "plus91" ->
            \E i \in Occ(s, "+91") : i + 12 <= Len(s) /\ AllIn(s, i + 3, i + 12, Digits)

(***************************************************************************)
(* Rule tables, in declaration order (Python dicts keep insertion order).  *)
(***************************************************************************)
BANK_RULES == <<
    [name |-> "SBI", never_asks |-> <<"OTP", "PIN", "CVV", "password", "secret code">>,
     never_requests |-> <<"UPI collect", "remote access", "teamviewer", "anydesk">>],
    [name |-> "HDFC", never_asks |-> <<"OTP", "PIN", "CVV", "password">>,
     never_requests |-> <<"UPI collect", "remote access">>],
    [name |-> "ICICI", never_asks |-> <<"OTP", "PIN", "CVV">>,
     never_requests |-> <<"UPI collect", "remote access">>],
    [name |-> "AXIS", never_asks |-> <<"OTP", "PIN", "CVV">>,
     never_requests |-> <<"UPI collect">>],
    [name |-> "RBI", never_asks |-> <<"OTP", "account details">>,
     never_requests |-> <<"fine payment via UPI">>] >>

\* auth_keywords is authority.lower().split("_")
GOVT_RULES == <<
    [name |-> "POLICE", auth_keywords |-> <<"police">>, spaced |-> "police",
     never |-> <<"arrest threats on call", "UPI fine payment", "send money immediately">>,
     never_asks |-> <<"OTP", "bank account">>],
    [name |-> "INCOME_TAX", auth_keywords |-> <<"income", "tax">>, spaced |-> "income tax",
     never |-> <<"immediate payment threats", "UPI payment">>,
     never_asks |-> <<"PAN pin", "social security">>],
    [name |-> "RBI_OFFICIAL", auth_keywords |-> <<"rbi", "official">>, spaced |-> "rbi official",
     never |-> <<"account verification payments">>,
     never_asks |-> <<"account password">>] >>

SCAM_KEYWORDS == <<
    [name |-> "Bank / KYC / OTP Scam",
     keywords |-> <<"otp", "pin", "cvv", "kyc", "verification", "blocked", "suspended",
                    "account will be locked", "confirm identity">>,
     score |-> 50,
     patterns |-> <<PAnyDigit("otp"), PAnyDigit("pin"), PAnyDigit("cvv")>>],
    [name |-> "Fake Government / Police Scam",
     keywords |-> <<"police", "fir", "arrest", "warrant", "income tax", "fine", "penalty", "rbi">>,
     score |-> 40,
     patterns |-> <<PAnyLit("case", "filed"), PLit("arrest warrant"), PLit("government")>>],
    [name |-> "UPI Refund / Collect Scam",
     keywords |-> <<"upi", "refund", "collect", "transfer", "paytm", "googlepay", "phonepe">>,
     score |-> 35,
     patterns |-> <<PAnyWord("upi", "@"), PDigitsAt>>],
    [name |-> "Job / Internship Scam",
     keywords |-> <<"job", "internship", "position", "hire", "salary", "work from home",
                    "data entry">>,
     score |-> 30,
     patterns |-> <<PRs, PAnyDigit("salary")>>],
    [name |-> "Investment / Crypto Scam",
     keywords |-> <<"invest", "bitcoin", "crypto", "forex", "stock", "profit", "returns",
                    "guaranteed">>,
     score |-> 40,
     patterns |-> <<PAnyLit("profit", "%"), PAnyLit("return", "guarantee")>>],
    [name |-> "Phishing Link Scam",
     keywords |-> <<"click", "link", "download", "update", "verify", "confirm">>,
     score |-> 45,
     patterns |-> <<PUrl, PLit("bit.ly"), PLit("tinyurl")>>],
    [name |-> "Delivery / Courier Scam",
     keywords |-> <<"delivery", "courier", "package", "shipment", "tracking", "customs">>,
     score |-> 25,
     patterns |-> <<PAnyWord("tracking", ""), PAnyWord("shipment", "")>>],
    [name |-> "Romance Scam",
     keywords |-> <<"love", "sweetheart", "marriage", "relationship", "need money">>,
     score |-> 35,
     patterns |-> <<>>],
    [name |-> "Lottery / Prize Scam",
     keywords |-> <<"lottery", "prize", "won", "congratulations", "claim", "reward">>,
     score |-> 40,
     patterns |-> <<PAnyRs("won")>>],
    [name |-> "Remote Access Scam",
     keywords |-> <<"teamviewer", "anydesk", "screen", "remote", "access", "control">>,
     score |-> 50,
     patterns |-> <<PAlt("teamviewer", "anydesk")>>],
    [name |-> "Fake Customer Care Scam",
     keywords |-> <<"customer care", "support", "amazon", "flipkart", "call", "helpline">>,
     score |-> 30,
     patterns |-> <<>>],
    [name |-> "Missed Call Scam",
     keywords |-> <<"missed call", "call back", "callback", "dial">>,
     score |-> 20,
     patterns |-> <<PPlus91>>],
    [name |-> "Fake Course / Certificate Scam",
     keywords |-> <<"course", "certificate", "diploma", "training", "degree", "enroll">>,
     score |-> 25,
     patterns |-> <<>>] >>

(***************************************************************************)
(* Step 1 of detect: category matching and keyword scoring.                *)
(***************************************************************************)
\* the keywords of a category present in the text, in table order
MatchedKeywords(details, text_lower) ==
    SelectSeq(details.keywords, LAMBDA kw : Contains(text_lower, kw))

\* cat_score of one category: 10 per keyword, 15 per pattern, plus the base
\* score when anything matched
CatScore(details, text_lower) ==
    LET kws == Len(MatchedKeywords(details, text_lower))
        pats == Cardinality({i \in 1..Len(details.patterns) :
                                Search(details.patterns[i], text_lower)})
        raw == 10 * kws + 15 * pats
    IN  IF raw > 0 THEN raw + details.score ELSE 0

\* category_scores: index of the table -> cat_score, 0 for a category left out
CategoryScores(text_lower) ==
    [c \in 1..Len(SCAM_KEYWORDS) |-> CatScore(SCAM_KEYWORDS[c], text_lower)]

\* max(category_scores, key=category_scores.get): the first key, in insertion
\* order, with the highest score; 0 when category_scores is empty
BestCategory(scores) ==
    LET cand == {c \in DOMAIN scores : scores[c] > 0}
    IN  IF cand = {} THEN 0
        ELSE CHOOSE c \in cand :
                /\ \A o \in cand : scores[o] <= scores[c]
                /\ \A o \in cand : o < c => scores[o] < scores[c]

\* score = min(100, category_scores[scam_type])
ClampCategory(s) == Min(100, s)

\* intel["suspiciousKeywords"]: matched_keywords[:3] of every matching category
RECURSIVE SuspiciousKeywords(_, _)
SuspiciousKeywords(c, text_lower) ==
    IF c > Len(SCAM_KEYWORDS) THEN <<>>
    ELSE LET m == MatchedKeywords(SCAM_KEYWORDS[c], text_lower)
         IN  SubSeq(m, 1, Min(3, Len(m))) \o SuspiciousKeywords(c + 1, text_lower)

(***************************************************************************)
(* _extract_claimed_authority                                              *)
(***************************************************************************)
seeded_names == <<"SBI", "HDFC", "RBI", "POLICE">>

ClaimCandidates(text_lower) ==
    LET banks == SelectSeq([i \in 1..Len(BANK_RULES) |-> BANK_RULES[i].name],
                           LAMBDA n : Contains(text_lower, Lower(n)))
        govts == SelectSeq([i \in 1..Len(GOVT_RULES) |-> GOVT_RULES[i]],
                           LAMBDA r : Contains(text_lower, r.spaced)
                                      \/ Contains(text_lower, Lower(r.name)))
        first == banks \o [i \in 1..Len(govts) |-> govts[i].name]
        seeds == SelectSeq(seeded_names,
                           LAMBDA n : Contains(text_lower, Lower(n))
                                      /\ \A i \in 1..Len(first) : first[i] # n)
    IN  first \o seeds

_extract_claimed_authority(text_lower) ==
    LET candidates == ClaimCandidates(text_lower)
    IN  IF Len(candidates) > 0 THEN candidates[1] ELSE None

(***************************************************************************)
(* _extract_intelligence: re.findall of the four patterns on the raw text. *)
(* findall scans left to right and resumes after the end of each match.    *)
(***************************************************************************)
\* [\w.\-]+@[a-zA-Z]+ at position p: "@" is outside the first class, so the
\* first part is the whole run of [\w.\-] that starts at p
HandleAt(s, p) ==
    /\ At(s, p) \in HandleChars
    /\ LET r == RunEnd(s, p, HandleChars)
       IN  r + 2 <= Len(s) /\ At(s, r + 1) = "@" /\ At(s, r + 2) \in Letters

HandleEnd(s, p) == RunEnd(s, RunEnd(s, p, HandleChars) + 2, Letters)

RECURSIVE FindHandles(_, _)
FindHandles(s, p) ==
    IF p > Len(s) THEN {}
    ELSE IF HandleAt(s, p)
         THEN {SubSeq(s, p, HandleEnd(s, p))} \cup FindHandles(s, HandleEnd(s, p) + 1)
         ELSE FindHandles(s, p + 1)

RECURSIVE FindLinks(_, _)
FindLinks(s, p) ==
    IF p > Len(s) THEN {}
    ELSE IF UrlAt(s, p)
         THEN {SubSeq(s, p, UrlEnd(s, p))} \cup FindLinks(s, UrlEnd(s, p) + 1)
         ELSE FindLinks(s, p + 1)

\* \b before position p and \b after position e, both next to a digit
BoundaryBefore(s, p) == p = 1 \/ At(s, p - 1) \notin WordChars
BoundaryAfter(s, e) == e = Len(s) \/ At(s, e + 1) \notin WordChars

\* \b\d{lo,hi}\b: a match is a whole run of digits between two boundaries
FindDigitRuns(s, lo, hi) ==
    {SubSeq(s, p, RunEnd(s, p, Digits)) :
        p \in {q \in 1..Len(s) :
                /\ At(s, q) \in Digits
                /\ BoundaryBefore(s, q)
                /\ LET e == RunEnd(s, q, Digits)
                   IN  e - q + 1 >= lo /\ e - q + 1 <= hi /\ BoundaryAfter(s, e)}}

\* set(re.findall(...)) of the four patterns
FoundIntel(text) ==
    [upiIds |-> FindHandles(text, 1),
     phoneNumbers |-> FindDigitRuns(text, 10, 10),
     phishingLinks |-> FindLinks(text, 1),
     bankAccounts |-> FindDigitRuns(text, 10, 16)]

FirstFiveMutant(matches) == {matches}

\* list(set(matches))[:5]: the first five in the set's iteration order, which
\* is the hash order of the strings: any min(5, n) of the n distinct matches
FirstFive(matches) ==
    {S \in SUBSET matches : Cardinality(S) = Min(5, Cardinality(matches))}

\* the values intel can take after _extract_intelligence(text, intel)
_extract_intelligence(text) ==
    LET f == FoundIntel(text)
    IN  [upiIds : FirstFive(f.upiIds),
         phoneNumbers : FirstFive(f.phoneNumbers),
         phishingLinks : FirstFive(f.phishingLinks),
         bankAccounts : FirstFive(f.bankAccounts)]

(***************************************************************************)
(* _apply_rule_validation                                                  *)
(***************************************************************************)
\* for forbidden in phrases: if forbidden.lower() in text_lower: ...; break
AnyForbidden(phrases, text_lower) ==
    \E i \in 1..Len(phrases) : Contains(text_lower, Lower(phrases[i]))

RECURSIVE BankAdds(_, _)
BankAdds(b, text_lower) ==
    IF b > Len(BANK_RULES) THEN 0
    ELSE LET rules == BANK_RULES[b]
             hit == Contains(text_lower, Lower(rules.name)) \/ Contains(text_lower, "bank")
         IN  (IF hit /\ AnyForbidden(rules.never_asks, text_lower) THEN 30 ELSE 0)
             + (IF hit /\ AnyForbidden(rules.never_requests, text_lower) THEN 25 ELSE 0)
             + BankAdds(b + 1, text_lower)

RECURSIVE GovtAdds(_, _)
GovtAdds(g, text_lower) ==
    IF g > Len(GOVT_RULES) THEN 0
    ELSE LET rules == GOVT_RULES[g]
             hit == \E i \in 1..Len(rules.auth_keywords) :
                        Contains(text_lower, rules.auth_keywords[i])
         IN  (IF hit /\ AnyForbidden(rules.never, text_lower) THEN 40 ELSE 0)
             + (IF hit /\ AnyForbidden(rules.never_asks, text_lower) THEN 30 ELSE 0)
             + GovtAdds(g + 1, text_lower)

\* the static part: score after the bank and government rule tables
StaticValidation(text_lower, base_score) ==
    base_score + BankAdds(1, text_lower) + GovtAdds(1, text_lower)

ProfileAddsMutant(profile, text_lower) ==
    IF AnyForbidden(profile.never_asks, text_lower) THEN 30 ELSE 0

\* the dynamic part: the additions for the profile of the claimed authority
ProfileAdds(profile, text_lower) ==
    (IF AnyForbidden(profile.never_asks, text_lower) THEN 30 ELSE 0)
    + (IF AnyForbidden(profile.never_requests, text_lower) THEN 25 ELSE 0)

ClampValidationMutant(score) == score

\* return min(100, score)
ClampValidation(score) == Min(100, score)

\* scam_detected = score >= 35
ScamDetected(score) == score >= 35

(***************************************************************************)
(* AuthorityFetcher: the profile objects and the cache.                    *)
(***************************************************************************)
_ttl_seconds == 6 * 60 * 60

\* the objects of _seeded, created with last_refreshed = 0.0
SeedProfiles == <<
    [name |-> "SBI", type |-> "BANK", official_domains |-> <<"sbi.co.in", "onlinesbi.sbi">>,
     official_channels |-> <<"SMS", "EMAIL", "APP">>,
     never_asks |-> <<"otp", "pin", "cvv", "password", "secret code">>,
     never_requests |-> <<"upi collect", "remote access">>, last_refreshed |-> 0],
    [name |-> "HDFC", type |-> "BANK", official_domains |-> <<"hdfcbank.com">>,
     official_channels |-> <<"SMS", "EMAIL", "APP">>,
     never_asks |-> <<"otp", "pin", "cvv">>,
     never_requests |-> <<"upi collect", "remote access">>, last_refreshed |-> 0],
    [name |-> "RBI", type |-> "GOVT", official_domains |-> <<"rbi.org.in">>,
     official_channels |-> <<"NOTICE", "EMAIL">>,
     never_asks |-> <<"otp", "account password">>,
     never_requests |-> <<"fine payment via upi">>, last_refreshed |-> 0],
    [name |-> "POLICE", type |-> "GOVT", official_domains |-> <<>>,
     official_channels |-> <<"CALL", "NOTICE">>,
     never_asks |-> <<"otp", "bank account">>,
     never_requests |-> <<"send money immediately", "upi fine payment">>, last_refreshed |-> 0] >>

\* cls._seeded.get(key): the reference of the seeded object, or None
_seeded(key) ==
    IF \E i \in 1..Len(SeedProfiles) : SeedProfiles[i].name = key
    THEN CHOOSE i \in 1..Len(SeedProfiles) : SeedProfiles[i].name = key
    ELSE NoObj

\* dict.get(key)
Get(dict, key) == IF key \in DOMAIN dict THEN dict[key] ELSE NoObj

\* dict[key] = value
Put(dict, key, value) == [k \in DOMAIN dict \cup {key} |-> IF k = key THEN value ELSE dict[k]]

\* dict.pop(key, None)
Pop(dict, key) == [k \in DOMAIN dict \ {key} |-> dict[k]]

\* (time.time() - existing.last_refreshed) < cls._ttl_seconds
IsFreshMutant(t, stamp) == (t - stamp) > _ttl_seconds
IsFreshInclusiveMutant(t, stamp) == (t - stamp) <= _ttl_seconds
IsFresh(t, stamp) == (t - stamp) < _ttl_seconds

\* key = name.strip().upper()
NormalKey(name) == Upper(Strip(name))

\* the domains _discover_profile probes, in order
TryDomains(key) == <<Lower(key) \o ".com", Lower(key) \o ".co.in", Lower(key) \o ".org">>

\* the minimal profile _discover_profile builds for the probed domain
DiscoveredProfile(key, domain) ==
    [name |-> key,
     type |-> IF \E k \in {"BANK", "SBI", "HDFC", "ICICI"} : Contains(key, k)
              THEN "BANK" ELSE "GOVT",
     official_domains |-> <<domain>>,
     official_channels |-> <<"WEBSITE">>,
     never_asks |-> <<"otp", "password">>,
     never_requests |-> <<>>,
     last_refreshed |-> 0]

\* what requests.get can do: answer 200, answer another status, raise
ProbeOutcomes == {"ok", "non200", "error"}

\* try: ... except Exception: continue  -- no outcome of a probe leaves the loop
\* by an exception
ProbeRaisesMutant(outcome) == outcome = "error"
ProbeRaises(outcome) == FALSE

IdleFrame ==
    [op |-> "none", pc |-> "idle", key |-> "", d |-> 0, t |-> NoStamp,
     profile |-> NoObj, ret |-> NoObj, raised |-> FALSE,
     \* history of the call, read only by the properties
     before |-> NoStamp, entryBefore |-> NoObj, prior |-> NoStamp, stamped |-> FALSE,
     failed |-> 0, erred |-> FALSE, found |-> FALSE, retStamp |-> NoStamp, retAt |-> NoStamp]

StampOf(ref) == IF ref = NoObj THEN NoStamp ELSE heap[ref].last_refreshed

\* the frame at "return value": the value, its stamp and the time of the return
Returned(f, value) ==
    [f EXCEPT !.pc = "return", !.d = 0, !.t = NoStamp, !.profile = NoObj,
              !.ret = value, !.retStamp = StampOf(value), !.retAt = now]

\* the history of lookups after a lookup of f.key returned value
Remember(f, value) ==
    IF f.op # "lookup" THEN lastRet
    ELSE IF value = NoObj THEN Pop(lastRet, f.key)
    ELSE Put(lastRet, f.key, StampOf(value))

\* get_profile(name) is entered: "if not name: return None", else the key
EnterGetProfile(f, name, key) ==
    IF name = "" THEN Returned(f, NoObj)
    ELSE [f EXCEPT !.pc = "check", !.key = key]

\* a caller starts get_profile(name)
StartLookup(name, key) ==
    LET f == [IdleFrame EXCEPT !.op = "lookup",
                               !.entryBefore = Get(cache, key),
                               !.before = StampOf(Get(cache, key)),
                               !.prior = IF key \in DOMAIN lastRet THEN lastRet[key]
                                         ELSE NoStamp]
    IN  EnterGetProfile(f, name, key)

\* a caller starts refresh_profile(name)
StartRefresh(name, key) ==
    LET f == [IdleFrame EXCEPT !.op = "refresh",
                               !.entryBefore = Get(cache, key),
                               !.before = StampOf(Get(cache, key))]
    IN  IF name = "" THEN Returned(f, NoObj)
        ELSE [f EXCEPT !.pc = "pop", !.key = key]

\* names the callers of the cache pass, each with its key = name.strip().upper()
CacheNames == {"", " police", "POLICE", "icici"}

CacheCalls == {[name |-> n, key |-> NormalKey(n)] : n \in CacheNames}

Threads == 1..NumThreads

Call(t) ==
    /\ thr[t].pc = "idle"
    /\ \E c \in CacheCalls :
         \/ /\ thr' = [thr EXCEPT ![t] = StartLookup(c.name, c.key)]
            /\ lastRet' = lastRet
         \/ /\ thr' = [thr EXCEPT ![t] = StartRefresh(c.name, c.key)]
            /\ lastRet' = Pop(lastRet, c.key)
    /\ UNCHANGED <<now, ticks, cache, heap, det, xtext, xintel>>

\* refresh_profile: with cls._lock: cls._cache.pop(key, None); then get_profile(key)
PopEntry(t) ==
    /\ thr[t].pc = "pop"
    /\ cache' = Pop(cache, thr[t].key)
    /\ thr' = [thr EXCEPT ![t] = EnterGetProfile(thr[t], thr[t].key, thr[t].key)]
    /\ UNCHANGED <<now, ticks, heap, lastRet, det, xtext, xintel>>

\* get_profile: the block under cls._lock that returns a fresh cached entry;
\* after a miss, seed = cls._seeded.get(key).  Every "with cls._lock:" block
\* of the source is one atomic action of the model.
Check(t) ==
    /\ thr[t].pc = "check"
    /\ LET f == thr[t]
           existing == Get(cache, f.key)
           seed == _seeded(f.key)
       IN  IF existing # NoObj /\ IsFresh(now, heap[existing].last_refreshed)
           THEN /\ thr' = [thr EXCEPT ![t] = Returned(f, existing)]
                /\ lastRet' = Remember(f, existing)
           ELSE /\ thr' = [thr EXCEPT ![t] =
                            IF seed # NoObj
                            THEN [f EXCEPT !.pc = "clock", !.profile = seed]
                            ELSE [f EXCEPT !.pc = "probe", !.d = 1]]
                /\ lastRet' = lastRet
    /\ UNCHANGED <<now, ticks, cache, heap, det, xtext, xintel>>

\* _discover_profile: one requests.get of the loop
Probe(t) ==
    /\ thr[t].pc = "probe"
    /\ LET f == thr[t] IN
       \E outcome \in ProbeOutcomes :
       LET g == [f EXCEPT !.failed = f.failed + 1,
                          !.erred = f.erred \/ outcome = "error"] IN
         IF ProbeRaises(outcome)
         THEN \* the exception leaves _discover_profile and get_profile
              /\ thr' = [thr EXCEPT ![t] = [Returned(g, NoObj) EXCEPT !.raised = TRUE]]
              /\ lastRet' = Remember(f, NoObj)
              /\ heap' = heap
         ELSE IF outcome = "ok"
         THEN /\ Len(heap) < Len(SeedProfiles) + MaxObjs
              /\ heap' = Append(heap, DiscoveredProfile(f.key, TryDomains(f.key)[f.d]))
              /\ thr' = [thr EXCEPT ![t] = [f EXCEPT !.pc = "clock", !.found = TRUE,
                                                      !.profile = Len(heap) + 1]]
              /\ lastRet' = lastRet
         ELSE IF f.d < Len(TryDomains(f.key))
         THEN /\ thr' = [thr EXCEPT ![t] = [g EXCEPT !.d = f.d + 1]]
              /\ lastRet' = lastRet
              /\ heap' = heap
         ELSE \* return None from _discover_profile, then "return profile"
              /\ thr' = [thr EXCEPT ![t] = Returned(g, NoObj)]
              /\ lastRet' = Remember(f, NoObj)
              /\ heap' = heap
    /\ UNCHANGED <<now, ticks, cache, det, xtext, xintel>>

\* "x.last_refreshed = time.time()": the call of time.time() ...
ReadClock(t) ==
    /\ thr[t].pc = "clock"
    /\ thr' = [thr EXCEPT ![t] = [thr[t] EXCEPT !.pc = "stamp", !.t = now]]
    /\ UNCHANGED <<now, ticks, cache, heap, lastRet, det, xtext, xintel>>

\* ... and the store into the attribute of the object, outside the lock
Stamp(t) ==
    /\ thr[t].pc = "stamp"
    /\ heap' = [heap EXCEPT ![thr[t].profile].last_refreshed = thr[t].t]
    /\ thr' = [thr EXCEPT ![t] = [thr[t] EXCEPT !.pc = "store", !.stamped = TRUE]]
    /\ UNCHANGED <<now, ticks, cache, lastRet, det, xtext, xintel>>

\* with cls._lock: cls._cache[key] = x; return x
Store(t) ==
    /\ thr[t].pc = "store"
    /\ cache' = Put(cache, thr[t].key, thr[t].profile)
    /\ thr' = [thr EXCEPT ![t] = Returned(thr[t], thr[t].profile)]
    /\ lastRet' = Remember(thr[t], thr[t].profile)
    /\ UNCHANGED <<now, ticks, heap, det, xtext, xintel>>

\* the call is over: its frame is gone, the caller holds the returned reference
\* (ret) and knows what it read from it (retStamp)
Return(t) ==
    /\ thr[t].pc = "return"
    /\ thr' = [thr EXCEPT ![t] = [IdleFrame EXCEPT !.ret = thr[t].ret,
                                                   !.retStamp = thr[t].retStamp]]
    /\ UNCHANGED <<now, ticks, cache, heap, lastRet, det, xtext, xintel>>

\* the clock advances: by a second, or by a whole TTL
ClockSteps == {1, _ttl_seconds}

Tick(step) ==
    /\ ticks < MaxTicks
    /\ now' = now + step
    /\ ticks' = ticks + 1
    /\ UNCHANGED <<cache, heap, thr, lastRet, det, xtext, xintel>>

NoDetect == [pc |-> "none"]
NoIntel == [pc |-> "none"]

InitCache ==
    /\ now = 0
    /\ ticks = 0
    /\ cache = <<>>
    /\ heap = SeedProfiles
    /\ thr = [t \in Threads |-> IdleFrame]
    /\ lastRet = <<>>

Init ==
    /\ InitCache
    /\ det = NoDetect
    /\ xtext = ""
    /\ xintel = NoIntel

(***************************************************************************)
(* Messages: up to MaxWords words of a vocabulary, joined by single spaces.*)
(***************************************************************************)
RECURSIVE TextsOf(_, _)
TextsOf(words, n) ==
    IF n = 0 THEN {""}
    ELSE LET shorter == TextsOf(words, n - 1)
         IN  shorter \cup {IF t = "" THEN w ELSE t \o " " \o w : t \in shorter, w \in words}

DetectWords ==
    {"dial", "bank password", "Police", "send money immediately", "SBI",
     "icici", "otp pin cvv kyc 1", "call 9876543210 x@upi http://a.b"}

DetectTexts == TextsOf(DetectWords, MaxWords)

ExtractWords ==
    {"skip", "a@x b.c@y d-e@z", "f@x g_1@y h@z",
     "9876543210 9876543211 9876543212", "9000000001 9000000002 9000000003",
     "http://a.b https://c.d/e http://f", "https://g.h http://i.j/k https://l",
     "123456789012 1234567890123456 12345678901234567"}

ExtractTexts == TextsOf(ExtractWords, MaxWords)

(***************************************************************************)
(* ScamDetector.detect, one action per stage.  The caller is thread 1: its *)
(* two get_profile calls run as the steps of the cache's state machine.    *)
(***************************************************************************)
NoProfile == <<>>   \* intel["authorityProfile"] = None

EmptyIntel ==
    [upiIds |-> {}, phoneNumbers |-> {}, phishingLinks |-> {}, bankAccounts |-> {},
     suspiciousKeywords |-> <<>>, authorityProfile |-> NoProfile]

\* the frame of detect(text) at its first statement
DetectFrame(text) ==
    [pc |-> "start", text |-> text, text_lower |-> "", score |-> 0, scam_type |-> None,
     intel |-> EmptyIntel, claimed |-> None, base |-> 0, raw |-> 0,
     \* history of the call: the stages entered, the get_profile calls made
     stages |-> <<>>, lookups |-> 0, result |-> <<>>]

\* the order of the statements of detect: where control goes after each stage
FlowAfterMutant(stage, claimed) ==
    CASE stage = "SCORE_CATEGORY" -> "extract"
      [] stage = "EXTRACT_INTEL" -> "claim"
      [] stage = "EXTRACT_CLAIM" -> "validate"
      [] stage = "FETCH_PROFILE" -> "validate"
      [] stage = "VALIDATE_RULES" -> "finalize"
      [] stage = "FINALIZE" -> "done"
FlowAfter(stage, claimed) ==
    CASE stage = "SCORE_CATEGORY" -> "extract"
      [] stage = "EXTRACT_INTEL" -> "claim"
      [] stage = "EXTRACT_CLAIM" -> IF claimed # None THEN "fetch" ELSE "validate"
      [] stage = "FETCH_PROFILE" -> "validate"
      [] stage = "VALIDATE_RULES" -> "finalize"
      [] stage = "FINALIZE" -> "done"

DetUnchanged == UNCHANGED <<now, ticks, cache, heap, thr, lastRet, xtext, xintel>>

\* Step 1: category matching and keyword scoring; the highest scoring category
ScoreCategory ==
    /\ det.pc = "start"
    /\ LET text_lower == Lower(det.text)
           category_scores == CategoryScores(text_lower)
           best == BestCategory(category_scores)
       IN  det' = [det EXCEPT
                !.pc = FlowAfter("SCORE_CATEGORY", det.claimed),
                !.text_lower = text_lower,
                !.scam_type = IF best = 0 THEN None ELSE SCAM_KEYWORDS[best].name,
                !.score = IF best = 0 THEN 0 ELSE ClampCategory(category_scores[best]),
                !.intel.suspiciousKeywords = SuspiciousKeywords(1, text_lower),
                !.stages = Append(det.stages, "SCORE_CATEGORY")]
    /\ DetUnchanged

\* Step 2: ScamDetector._extract_intelligence(text, intel)
ExtractIntel ==
    /\ det.pc = "extract"
    /\ \E found \in _extract_intelligence(det.text) :
         det' = [det EXCEPT
                !.pc = FlowAfter("EXTRACT_INTEL", det.claimed),
                !.intel.upiIds = found.upiIds,
                !.intel.phoneNumbers = found.phoneNumbers,
                !.intel.phishingLinks = found.phishingLinks,
                !.intel.bankAccounts = found.bankAccounts,
                !.stages = Append(det.stages, "EXTRACT_INTEL")]
    /\ DetUnchanged

\* Step 3: claimed = ScamDetector._extract_claimed_authority(text_lower)
ExtractClaim ==
    /\ det.pc = "claim"
    /\ LET claimed == _extract_claimed_authority(det.text_lower)
       IN  det' = [det EXCEPT
                !.pc = FlowAfter("EXTRACT_CLAIM", claimed),
                !.claimed = claimed,
                !.stages = Append(det.stages, "EXTRACT_CLAIM")]
    /\ DetUnchanged

\* if claimed: profile = AuthorityFetcher.get_profile(claimed) -- the call
FetchCall ==
    /\ det.pc = "fetch"
    /\ thr[1].pc = "idle"
    /\ thr' = [thr EXCEPT ![1] = StartLookup(det.claimed, NormalKey(det.claimed))]
    /\ det' = [det EXCEPT !.pc = "fetch_ret", !.lookups = det.lookups + 1,
                          !.stages = Append(det.stages, "FETCH_PROFILE")]
    /\ UNCHANGED <<now, ticks, cache, heap, lastRet, xtext, xintel>>

\* the profile came back: if profile: intel["authorityProfile"] = {...}
FetchReturn ==
    /\ det.pc = "fetch_ret"
    /\ thr[1].pc = "idle"
    /\ LET profile == thr[1].ret
       IN  det' = [det EXCEPT
                !.pc = FlowAfter("FETCH_PROFILE", det.claimed),
                !.intel.authorityProfile =
                    IF profile = NoObj THEN NoProfile
                    ELSE <<[name |-> heap[profile].name,
                            type |-> heap[profile].type,
                            official_domains |-> heap[profile].official_domains,
                            official_channels |-> heap[profile].official_channels,
                            last_refreshed |-> heap[profile].last_refreshed]>>]
    /\ DetUnchanged

\* _apply_rule_validation up to its own get_profile call: the static tables
ValidateStatic ==
    /\ det.pc = "validate"
    /\ thr[1].pc = "idle"
    /\ LET score == StaticValidation(det.text_lower, det.score)
       IN  IF det.claimed # None
           THEN /\ thr' = [thr EXCEPT ![1] =
                            StartLookup(det.claimed, NormalKey(det.claimed))]
                /\ det' = [det EXCEPT !.pc = "validate_ret", !.lookups = det.lookups + 1,
                                      !.base = det.score, !.raw = score,
                                      !.stages = Append(det.stages, "VALIDATE_RULES")]
           ELSE /\ thr' = thr
                /\ det' = [det EXCEPT !.pc = FlowAfter("VALIDATE_RULES", det.claimed),
                                      !.base = det.score, !.raw = score,
                                      !.score = ClampValidation(score),
                                      !.stages = Append(det.stages, "VALIDATE_RULES")]
    /\ UNCHANGED <<now, ticks, cache, heap, lastRet, xtext, xintel>>

\* _apply_rule_validation after get_profile: the checks of the dynamic profile
ValidateDynamic ==
    /\ det.pc = "validate_ret"
    /\ thr[1].pc = "idle"
    /\ LET profile == thr[1].ret
           score == IF profile = NoObj THEN det.raw
                    ELSE det.raw + ProfileAdds(heap[profile], det.text_lower)
       IN  det' = [det EXCEPT !.pc = FlowAfter("VALIDATE_RULES", det.claimed),
                              !.raw = score,
                              !.score = ClampValidation(score)]
    /\ DetUnchanged

\* scam_type if scam_detected else None
ReportedTypeMutant(scam_detected, scam_type) == scam_type
ReportedType(scam_detected, scam_type) == IF scam_detected THEN scam_type ELSE None

\* scam_detected = score >= 35; return scam_detected, scam_type or None, score, intel
Finalize ==
    /\ det.pc = "finalize"
    /\ LET scam_detected == ScamDetected(det.score)
       IN  det' = [det EXCEPT
                !.pc = FlowAfter("FINALIZE", det.claimed),
                !.result = <<[scamDetected |-> scam_detected,
                              scamType |-> ReportedType(scam_detected, det.scam_type),
                              scamScore |-> det.score,
                              intel |-> det.intel]>>,
                !.stages = Append(det.stages, "FINALIZE")]
    /\ DetUnchanged

\* the same message is classified again
Again ==
    /\ det.pc = "done"
    /\ det' = DetectFrame(det.text)
    /\ DetUnchanged

InitDetect ==
    /\ InitCache
    /\ \E text \in DetectTexts : det = DetectFrame(text)
    /\ xtext = ""
    /\ xintel = NoIntel

NextDetect ==
    \/ ScoreCategory
    \/ ExtractIntel
    \/ ExtractClaim
    \/ FetchCall
    \/ FetchReturn
    \/ ValidateStatic
    \/ ValidateDynamic
    \/ Finalize
    \/ Again
    \/ Check(1)
    \/ Probe(1)
    \/ ReadClock(1)
    \/ Stamp(1)
    \/ Store(1)
    \/ Return(1)
    \/ (det.pc = "done" /\ Tick(_ttl_seconds))   \* between two calls the entries go stale

SpecDetect == InitDetect /\ [][NextDetect]_vars

(***************************************************************************)
(* A direct call of ScamDetector._extract_intelligence(text, intel) with   *)
(* the empty lists detect passes.                                          *)
(***************************************************************************)
CallExtract ==
    /\ xintel.pc = "none"
    /\ \E found \in _extract_intelligence(xtext) :
         xintel' = [pc |-> "done", lists |-> found]
    /\ UNCHANGED <<now, ticks, cache, heap, thr, lastRet, det, xtext>>

InitExtract ==
    /\ InitCache
    /\ det = NoDetect
    /\ xtext \in ExtractTexts
    /\ xintel = NoIntel

NextExtract == CallExtract

SpecExtract == InitExtract /\ [][NextExtract]_vars


Step(t) ==
    \/ Call(t)
    \/ PopEntry(t)
    \/ Check(t)
    \/ Probe(t)
    \/ ReadClock(t)
    \/ Stamp(t)
    \/ Store(t)
    \/ Return(t)

\* callers on concurrent threads
Next ==
    \/ \E t \in Threads : Step(t)
    \/ \E step \in ClockSteps : Tick(step)

Spec == Init /\ [][Next]_vars

\* one caller: calls never overlap
NextSeq ==
    \/ Step(1)
    \/ \E step \in ClockSteps : Tick(step)

SpecSeq == Init /\ [][NextSeq]_vars

\* one caller, and a clock that moves by seconds while a call runs and by a
\* whole TTL only between two calls: a sequence of calls and clock advances
NextCalls ==
    \/ Step(1)
    \/ Tick(1)
    \/ (thr[1].pc = "idle" /\ Tick(_ttl_seconds))

SpecCalls == Init /\ [][NextCalls]_vars

(***************************************************************************)
(* Properties.                                                             *)
(***************************************************************************)
DetectDone == det.pc = "done"
Verdict == det.result[1]

\* C1: the score detect returns is an integer in 0..100, for every text and
\* every state of the cache; so is the score after the category stage.
C1_ScoreInRange ==
    det.pc # "none" =>
        /\ det.score \in 0..100
        /\ DetectDone => Verdict.scamScore \in 0..100

\* C1 witness: a call whose accumulated score passed 100 and was clamped.
C1_ClampActed == DetectDone /\ det.raw > 100 /\ Verdict.scamScore = 100

\* no keyword of the category table is in the text and none of its patterns matches
NoCategorySignal(text_lower) ==
    \A c \in 1..Len(SCAM_KEYWORDS) :
        /\ \A k \in 1..Len(SCAM_KEYWORDS[c].keywords) :
              ~Contains(text_lower, SCAM_KEYWORDS[c].keywords[k])
        /\ \A q \in 1..Len(SCAM_KEYWORDS[c].patterns) :
              ~Search(SCAM_KEYWORDS[c].patterns[q], text_lower)

\* C2: a text with no keyword and no pattern of the category table gets
\* score = 0, isScam = false and category = null.
C2_NoSignalScoresZero ==
    (DetectDone /\ NoCategorySignal(det.text_lower)) =>
        /\ Verdict.scamScore = 0
        /\ ~Verdict.scamDetected
        /\ Verdict.scamType = None

\* C3: isScam is true exactly when the final score is >= 35, and the category
\* is absent whenever isScam is false.
C3_ThresholdAndSuppression ==
    DetectDone =>
        /\ Verdict.scamDetected <=> (Verdict.scamScore >= 35)
        /\ ~Verdict.scamDetected => Verdict.scamType = None

\* C3 witness: a best category was identified, the verdict is negative.
C3_CategorySuppressed ==
    DetectDone /\ det.scam_type # None /\ ~Verdict.scamDetected /\ Verdict.scamType = None

\* C4: a lookup that follows an earlier lookup of the same key, inside the TTL
\* window of the stamp the earlier one returned and with no forceRefresh of the
\* key in between, returns an entry with that same stamp and stamps nothing.
\* (One caller: the calls do not overlap.)
C4_SameStampWithinTtl ==
    LET f == thr[1] IN
    (f.op = "lookup" /\ f.pc = "return" /\ f.prior # NoStamp
        /\ f.retAt - f.prior < _ttl_seconds) =>
        /\ f.ret # NoObj
        /\ f.retStamp = f.prior
        /\ ~f.stamped

\* C4 witness: the second lookup returned after the clock had moved on, still
\* inside the window.
C4_SecondLookupInWindow ==
    LET f == thr[1] IN
    /\ f.op = "lookup" /\ f.pc = "return" /\ f.prior # NoStamp
    /\ f.retAt > f.prior /\ f.retAt - f.prior < _ttl_seconds
    /\ f.ret # NoObj

\* C5: with a non-decreasing clock, the lastRefreshed of a key's cached
\* profile never decreases from one state to the next, and a forceRefresh
\* returns a profile whose lastRefreshed is >= the value the entry had before
\* the call.
C5_StampsNeverDecrease ==
    [][/\ \A k \in DOMAIN cache \cap DOMAIN cache' :
             heap'[cache'[k]].last_refreshed >= heap[cache[k]].last_refreshed
       /\ \A t \in Threads :
             (thr[t].op = "refresh" /\ thr[t].pc # "return" /\ thr'[t].pc = "return"
                /\ thr'[t].ret # NoObj)
             => thr'[t].retStamp >= thr[t].before]_vars

\* C6: a profile a caller got from lookup or forceRefresh is an immutable
\* snapshot: its lastRefreshed stays what it was at the return.
C6_ReturnedSnapshotImmutable ==
    \A t \in Threads :
        (thr[t].pc = "idle" /\ thr[t].ret # NoObj)
        => heap[thr[t].ret].last_refreshed = thr[t].retStamp

\* C7: each of the four extracted lists has length <= 5.
C7_ListsCapped ==
    xintel.pc = "done" =>
        /\ Cardinality(xintel.lists.upiIds) <= 5
        /\ Cardinality(xintel.lists.phoneNumbers) <= 5
        /\ Cardinality(xintel.lists.phishingLinks) <= 5
        /\ Cardinality(xintel.lists.bankAccounts) <= 5

\* C7 witness: the text holds more than five distinct matches of every kind
\* of number, and five were kept.
C7_MoreThanFiveFound ==
    /\ xintel.pc = "done"
    /\ Cardinality(FoundIntel(xtext).phoneNumbers) > 5
    /\ Cardinality(FoundIntel(xtext).bankAccounts) > 5
    /\ Cardinality(xintel.lists.phoneNumbers) = 5
    /\ Cardinality(xintel.lists.bankAccounts) = 5

\* C8: a lookup of a key with no fresh entry and no seeded profile, every
\* probe of which fails, returns absent, raises nothing, and leaves the
\* cache's entry for the key as it was.
C8_FailedDiscoveryIsAbsent ==
    LET f == thr[1] IN
    (f.op = "lookup" /\ f.pc = "return" /\ f.failed > 0 /\ ~f.found) =>
        /\ f.ret = NoObj
        /\ ~f.raised
        /\ f.failed = Len(TryDomains(f.key))
        /\ Get(cache, f.key) = f.entryBefore

\* C8 witness: three probes failed, one of them by an exception.
C8_AllProbesFailed ==
    LET f == thr[1] IN
    /\ f.op = "lookup" /\ f.pc = "return" /\ f.failed = 3 /\ f.erred /\ ~f.found
    /\ f.ret = NoObj

PoliceSendsMoney ==
    /\ DetectDone
    /\ det.claimed = "POLICE"
    /\ Contains(det.text_lower, "send money immediately")

\* C9 as stated: claimed authority POLICE with "send money immediately" makes
\* rule validation add 40 to the category score, and the verdict is a scam.
C9_ValidationAdds40 ==
    PoliceSendsMoney => (det.raw - det.base = 40 /\ Verdict.scamDetected)

\* C9 amended: rule validation adds at least 65 (40 for the static POLICE rule
\* and 25 for never_requests of the seeded POLICE profile) to a category score
\* that is at least 50, so the final score is 100 and the verdict is a scam.
C9_ValidationAddsAtLeast65 ==
    PoliceSendsMoney =>
        /\ det.raw - det.base >= 65
        /\ det.base >= 50
        /\ Verdict.scamScore = 100
        /\ Verdict.scamDetected

\* C9 witness: exactly the two additions, 40 and 25.
C9_PoliceCase == PoliceSendsMoney /\ det.raw - det.base = 65

\* C10 as stated: the stages run once each in the order EXTRACT_INTEL,
\* SCORE_CATEGORY, EXTRACT_CLAIM, FETCH_PROFILE (when a claim was found),
\* VALIDATE_RULES, FINALIZE.
C10_StatedOrder ==
    DetectDone =>
        det.stages = <<"EXTRACT_INTEL", "SCORE_CATEGORY", "EXTRACT_CLAIM">>
                     \o (IF det.claimed # None THEN <<"FETCH_PROFILE">> ELSE <<>>)
                     \o <<"VALIDATE_RULES", "FINALIZE">>

\* C10 amended: the stages run once each in the order SCORE_CATEGORY,
\* EXTRACT_INTEL, EXTRACT_CLAIM, FETCH_PROFILE (only when a claim was found),
\* VALIDATE_RULES, FINALIZE, never returning to an earlier stage: category
\* scoring happens before intelligence extraction.
C10_CodeOrder ==
    /\ DetectDone =>
         det.stages = <<"SCORE_CATEGORY", "EXTRACT_INTEL", "EXTRACT_CLAIM">>
                      \o (IF det.claimed # None THEN <<"FETCH_PROFILE">> ELSE <<>>)
                      \o <<"VALIDATE_RULES", "FINALIZE">>
    /\ det.pc # "none" =>
         \A i, j \in 1..Len(det.stages) : i # j => det.stages[i] # det.stages[j]

\* C10 witness: a finished call that found a claim and fetched its profile.
C10_WithFetch ==
    DetectDone /\ det.claimed # None /\ Len(det.stages) = 6 /\ det.stages[4] = "FETCH_PROFILE"

\* C11: in a sequence of lookups, forceRefreshes and clock advances, a lookup
\* never returns a profile that is stale at the time of the return; an entry
\* that is stale is treated as absent: the lookup returns the seeded profile
\* re-stamped, or a newly discovered and stamped profile that replaces the
\* stale entry in the cache, or absent.
C11_NeverReturnsStale ==
    LET f == thr[1] IN
    (f.op = "lookup" /\ f.pc = "return") =>
        /\ f.ret # NoObj => f.retAt - f.retStamp < _ttl_seconds
        /\ (f.before # NoStamp /\ f.retAt - f.before >= _ttl_seconds) =>
              \/ f.ret = NoObj
              \/ /\ f.stamped
                 /\ f.retStamp > f.before
                 /\ Get(cache, f.key) = f.ret
                 /\ \/ f.ret = _seeded(f.key)
                    \/ f.found /\ f.ret # f.entryBefore

\* C11 witness: the entry was stale when the lookup ran, and the lookup
\* returned the profile with a new stamp.
C11_StaleEntryRestamped ==
    LET f == thr[1] IN
    /\ f.op = "lookup" /\ f.pc = "return"
    /\ f.before # NoStamp /\ f.retAt - f.before >= _ttl_seconds
    /\ f.ret # NoObj /\ f.stamped /\ f.retStamp > f.before

====
